---------------------------- MODULE Spec2Model ----------------------------
(***************************************************************************)
(* Model of clover/valid_pred_sets.py: the Valid_pred_sets object (fit,    *)
(* predict, compute_dif, monte_carlo_test, bootstrap_ci) and the module    *)
(* level worker functions _retrain_loop_par, retrain_par, bootstrap_par.   *)
(*                                                                         *)
(* Numbers.  A float is a natural number v standing for v / One, kept to   *)
(* Prec significant bits with round-to-nearest-even, as numpy's float64    *)
(* arithmetic does with 53 bits.  A feature row is one value of Xvals.     *)
(* An estimator object of sklearn / pygam is a record; what a learner      *)
(* returns from fit is any predictor over Xvals whose probability table    *)
(* has one column per class seen in the labels.                            *)
(***************************************************************************)
EXTENDS Integers, Sequences, FiniteSets, TLC

(* ------------------------------ bounds -------------------------------- *)
MaxN == 3
MaxB == 3
MaxCpus == 3
MaxPredictRows == 2
Prec == 5
FracBits == 10

Xvals == {1, 2}
Yvals == 0 .. 4

(* ------------------------- float64 arithmetic ------------------------- *)
RECURSIVE Pow2(_)
Pow2(k) == IF k <= 0 THEN 1 ELSE 2 * Pow2(k - 1)

One == Pow2(FracBits)

RECURSIVE BitLen(_)
BitLen(v) == IF v <= 0 THEN 0 ELSE 1 + BitLen(v \div 2)

\* the spacing of the representable numbers around q
Ulp(q) == Pow2(BitLen(q) - Prec)

\* a / b rounded to the nearest representable number, ties to even
Round(a, b) ==
    LET den == b * Ulp(a \div b)
        k   == a \div den
        rem == a - k * den
    IN  IF 2 * rem > den \/ (2 * rem = den /\ k % 2 = 1)
        THEN (k + 1) * (den \div b)
        ELSE k * (den \div b)

FAdd(x, y) == Round(x + y, 1)
FAbsDiff(x, y) == Round(IF x >= y THEN x - y ELSE y - x, 1)
FDiv(x, n) == Round(x, n)

RECURSIVE FSum(_)
FSum(s) == IF Len(s) = 0 THEN 0
           ELSE FAdd(FSum(SubSeq(s, 1, Len(s) - 1)), s[Len(s)])

\* np.mean and np.max of a non-empty array
NpMean(s) == FDiv(FSum(s), Len(s))
\* the first entry in place of the largest, for comparison
NpFirst(s) == s[1]
NpMax(s) == CHOOSE m \in {s[i] : i \in 1 .. Len(s)} :
                \A i \in 1 .. Len(s) : s[i] <= m

\* np.abs(r - (1 - alpha)), elementwise
AbsDev(r, a) == [i \in 1 .. Len(r) |-> FAbsDiff(r[i], FAbsDiff(One, a))]

\* np.mean(np.abs(r - (1 - alpha)))
MeanAbsDev(r, a) == NpMean(AbsDev(r, a))

\* rounding of a signed quotient, and the signed operations
SRound(a, b) == IF a >= 0 THEN Round(a, b) ELSE 0 - Round(0 - a, b)
FSub(x, y) == SRound(x - y, 1)
FMul(x, y) == SRound(x * y, One)

\* the largest r in lo .. hi with r * r <= n
RECURSIVE ISqrtIn(_, _, _)
ISqrtIn(n, lo, hi) ==
    IF lo >= hi THEN lo
    ELSE LET mid == (lo + hi + 1) \div 2
         IN  IF mid * mid <= n THEN ISqrtIn(n, mid, hi)
             ELSE ISqrtIn(n, lo, mid - 1)

\* np.sqrt(x), correctly rounded
FSqrt(x) ==
    LET n  == x * One
        q  == ISqrtIn(n, 0, IF n < 40000 THEN n ELSE 40000)
        u  == Ulp(q)
        k  == q \div u
        lo == k * u
        c  == (2 * lo + u) * (2 * lo + u)
    IN  IF c < 4 * n \/ (c = 4 * n /\ k % 2 = 1) THEN lo + u ELSE lo

\* np.sum((t_vec - np.mean(t_vec)) ** 2)
SumSqDev(t_vec) ==
    LET m == NpMean(t_vec)
    IN  FSum([k \in 1 .. Len(t_vec) |->
                FMul(FSub(t_vec[k], m), FSub(t_vec[k], m))])

\* the standard deviation with divisor B, for comparison
EpbBiased(t_vec, B) == FSqrt(FMul(FDiv(One, B), SumSqDev(t_vec)))

\* np.sqrt(1 / (B - 1) * np.sum(...)), for B > 1
Epb(t_vec, B) == FSqrt(FMul(FDiv(One, B - 1), SumSqDev(t_vec)))

\* a significance level sig_b is a fraction <<numerator, denominator>>;
\* stats.norm.ppf(1 - sig_b / 2) to four decimals, as a float
SigGrid == {<<1, 20>>, <<1, 2>>}
NormPpf(sig) ==
    IF sig = <<1, 20>> THEN Round(19600 * One, 10000) ELSE Round(6745 * One, 10000)

\* np.quantile(a, q), q = qn / qd, by linear interpolation between the
\* two order statistics around the position (n - 1) * q
Quantile(a, qn, qd) ==
    LET srt  == SortSeq(a, LAMBDA x, y : x < y)
        n    == Len(a)
        j    == ((n - 1) * qn) \div qd
        g    == Round((((n - 1) * qn) % qd) * One, qd)
        lo   == srt[j + 1]
        hi   == srt[IF j + 2 <= n THEN j + 2 ELSE n]
        diff == FSub(hi, lo)
    IN  IF 2 * g >= One THEN FSub(hi, FMul(diff, FSub(One, g)))
        ELSE FAdd(lo, FMul(diff, g))


(* --------------------------- small helpers ---------------------------- *)
Range(s) == {s[i] : i \in 1 .. Len(s)}
SeqsUpTo(S, n) == UNION {[1 .. k -> S] : k \in 1 .. n}
CeilDiv(a, b) == (a + b - 1) \div b

\* the rows of s at the positions of idx, a sequence of positions
Rows(s, idx) == [i \in 1 .. Len(idx) |-> s[idx[i]]]

RECURSIVE Ascending(_)
Ascending(S) ==
    IF S = {} THEN <<>>
    ELSE LET m == CHOOSE x \in S : \A z \in S : x <= z
         IN  <<m>> \o Ascending(S \ {m})

(* ------------------- results of a call: value or raise ---------------- *)
Raise(e) == [kind |-> "raise", exc |-> e]
None == [kind |-> "None"]
\* an ndarray: ndim 1 is a vector, ndim 2 a table given row by row
NdArray(d, v) == [kind |-> "ndarray", ndim |-> d, v |-> v]
IsRaise(r) == r.kind = "raise"

(* ------------------------- estimator objects -------------------------- *)
ProbGrid == {0, One}
CcpGrid == {0, 1}
LossGrid == {0, 1}

Estimator(lib, cls) ==
    [lib |-> lib, cls |-> cls, fitted |-> FALSE, classes |-> {},
     p |-> [x \in Xvals |-> 0], ccp_alpha |-> 0]

NoObject == Estimator("none", "none")
DecisionTreeClassifier == Estimator("sklearn", "DecisionTreeClassifier")
RandomForestClassifier == Estimator("sklearn", "RandomForestClassifier")
LogisticGAM == Estimator("pygam", "LogisticGAM")

\* "sklearn" in str(type(model))
IsSklearn(m) == m.lib = "sklearn"

\* The predictors a learner may return for labels with these classes.  A
\* sklearn classifier that saw one class has a one-column table, all ones.
Predictors(est, classes) ==
    IF IsSklearn(est) /\ Cardinality(classes) = 1
    THEN {[x \in Xvals |-> One]}
    ELSE [Xvals -> ProbGrid]

\* est.fit(X, w) when the learner settles on predictor f: est itself, fitted
EstFitWith(est, X, w, f) ==
    IF Len(X) # Len(w) THEN Raise("ValueError")
    ELSE [kind |-> "object",
          obj |-> [est EXCEPT !.fitted = TRUE, !.classes = Range(w), !.p = f]]

\* est.fit(X, w): every object the learner may return, or the raise
EstFit(est, X, w) ==
    {EstFitWith(est, X, w, f) : f \in Predictors(est, Range(w))}

\* sklearn's clone(model): a new unfitted estimator with the same parameters
Clone(m) == [m EXCEPT !.fitted = FALSE, !.classes = {}, !.p = [x \in Xvals |-> 0]]

\* model.move_to_cpu(): a method of the torch-backed estimators only
MoveToCpu(m) == IF m.lib = "torch" THEN m ELSE Raise("AttributeError")

\* model.predict_proba(X): a table for sklearn, a vector for pygam
PredictProba(m, X) ==
    IF ~m.fitted THEN Raise("NotFittedError")
    ELSE IF m.lib = "sklearn"
    THEN NdArray(2, [i \in 1 .. Len(X) |->
            IF Cardinality(m.classes) = 1 THEN <<m.p[X[i]]>>
            ELSE <<FAbsDiff(One, m.p[X[i]]), m.p[X[i]]>>])
    ELSE IF m.lib = "pygam"
    THEN NdArray(1, [i \in 1 .. Len(X) |-> m.p[X[i]]])
    ELSE Raise("AttributeError")

\* model.predict(X).flatten(order="C") of a regressor-style estimator
PredictFlat(m, X) ==
    IF ~m.fitted THEN Raise("NotFittedError")
    ELSE NdArray(1, [i \in 1 .. Len(X) |-> m.p[X[i]]])

\* pred if len(pred[0]) == 1 else pred[:, 1]
PositiveColumn(pred) ==
    IF Len(pred.v[1]) = 1
    THEN pred
    ELSE NdArray(1, [i \in 1 .. Len(pred.v) |-> pred.v[i][2]])

\* the entries of an ndarray in C order
Flat(a) ==
    IF a.ndim = 1 THEN a.v
    ELSE [i \in 1 .. Len(a.v) |-> a.v[i][1]]

(* ------------------------- the analysis object ------------------------ *)
VARIABLES
    conf,                \* self.conf: the interval predictor
    nc,                  \* self.nc
    islcp,               \* self.islcp
    alpha,               \* self.alpha
    coverage_evaluator,  \* self.coverage_evaluator: a tag or an estimator
    prune,               \* self.prune
    split_train,         \* self.split_train
    attrs,               \* the attributes fit has set on self so far
    X_train, X_test, w_train, w_test,
    model,               \* self.model
    pc,                  \* where the caller's thread is
    call,                \* the call in progress or last made, with its arguments
    ret,                 \* what the last finished call returned or raised
    prev_dif,            \* the result of the call before, if it was compute_dif
    t_obs,               \* local of monte_carlo_test / bootstrap_ci
    t_b,                 \* local t_b / t_vec: the statistics collected so far
    tasks,               \* the AsyncResults of the pool, in submission order
    seeds,               \* local seeds: the sub-seeds of a parallel call
    pool                 \* the worker pool of the call in progress or last made

objVars == <<conf, nc, islcp, alpha, coverage_evaluator, prune, split_train, attrs,
             X_train, X_test, w_train, w_test, model>>

Tag(t) == [tag |-> t, est |-> NoObject]
Custom(lib) == [tag |-> "object", est |-> Estimator(lib, "custom")]
Evaluators == {Tag("CART"), Tag("RF"), Tag("GAM"), Tag("nnet"),
               Custom("sklearn"), Custom("torch")}

AlphaGrid == {(3 * One) \div 16}
TestSizes == {<<1, 5>>, <<1, 2>>}

\* the attributes of self as one record
Self ==
    [attrs |-> attrs, X_train |-> X_train, X_test |-> X_test,
     w_train |-> w_train, w_test |-> w_test, model |-> model,
     coverage_evaluator |-> coverage_evaluator]

Done(S) == [self |-> S, exc |-> "none"]

NoPool == [status |-> "none", size |-> 0, unfinished |-> 0]

\* the locals of a call are gone once it has returned
NoLocals ==
    /\ t_obs' = None
    /\ t_b' = <<>>
    /\ tasks' = <<>>
    /\ seeds' = <<>>

Failed(S, e) == [self |-> S, exc |-> e]

(* ------------------------------- fit ---------------------------------- *)
\* conf.predict(X_calib): one (lower, upper) row per row of X
ConfPredict(X) == [i \in 1 .. Len(X) |-> <<X[i], X[i] + 1>>]

\* the interval predictors: the calling conventions each one answers
Confs == [significance : BOOLEAN, predict_pi : BOOLEAN, predict : BOOLEAN]
PlainConf == [significance |-> FALSE, predict_pi |-> FALSE, predict |-> TRUE]

\* conf.predict(X_calib, significance=alpha): an n x 2 array
ConfPredictSignificance(c, X, a) ==
    IF c.significance THEN NdArray(2, ConfPredict(X)) ELSE Raise("TypeError")

\* conf.predict_pi(X_calib, method="qrf"): the pair (lower bounds, upper bounds)
ConfPredictPi(c, X) ==
    IF c.predict_pi
    THEN [kind |-> "tuple",
          v |-> <<[i \in 1 .. Len(X) |-> ConfPredict(X)[i][1]],
                  [i \in 1 .. Len(X) |-> ConfPredict(X)[i][2]]>>]
    ELSE Raise("AttributeError")

\* np.stack((lower, upper), axis=-1): one (lower, upper) row per entry
NpStack(t) ==
    NdArray(2, [i \in 1 .. Len(t.v[1]) |-> <<t.v[1][i], t.v[2][i]>>])

\* np.array(conf.predict(X_calib))
ConfPredictPlain(c, X) ==
    IF c.predict THEN NdArray(2, ConfPredict(X)) ELSE Raise("AttributeError")

\* the adapter with the lcp flag tested first, for comparison
IntervalsLcpFirst(n, l, c, X, a) ==
    IF l
    THEN LET t == ConfPredictPi(c, X)
         IN  [invoked |-> <<"predict_pi">>,
              preds |-> IF IsRaise(t) THEN t ELSE NpStack(t)]
    ELSE IF n
    THEN [invoked |-> <<"predict_significance">>,
          preds |-> ConfPredictSignificance(c, X, a)]
    ELSE [invoked |-> <<"predict">>, preds |-> ConfPredictPlain(c, X)]

\* the first statement of fit: the methods of conf it invokes, in order, and
\* the preds it obtains (or what the call raises)
Intervals(n, l, c, X, a) ==
    IF n
    THEN [invoked |-> <<"predict_significance">>,
          preds |-> ConfPredictSignificance(c, X, a)]
    ELSE IF l
    THEN LET t == ConfPredictPi(c, X)
         IN  [invoked |-> <<"predict_pi">>,
              preds |-> IF IsRaise(t) THEN t ELSE NpStack(t)]
    ELSE [invoked |-> <<"predict">>, preds |-> ConfPredictPlain(c, X)]

\* int(y_calib[i] >= preds[i, 0] and y_calib[i] <= preds[i, 1])
\* the indicator with both bounds exclusive, for comparison
CoveredStrict(yi, row) == IF yi > row[1] /\ yi < row[2] THEN 1 ELSE 0
Covered(yi, row) == IF yi >= row[1] /\ yi <= row[2] THEN 1 ELSE 0

\* the labelling loop: w has y's length, preds[i] must exist for each i
Label(y, preds) ==
    IF Len(y) > Len(preds) THEN Raise("IndexError")
    ELSE NdArray(1, [i \in 1 .. Len(y) |-> Covered(y[i], preds[i])])

\* sklearn's train_test_split(X, w, test_size): the folds it may return.
\* The shuffle is a choice of the test rows; rows keep their order.
TrainTestSplit(X, w, ts) ==
    LET n == Len(X)
        n_test == CeilDiv(n * ts[1], ts[2])
        n_train == (n * (ts[2] - ts[1])) \div ts[2]
    IN  IF Len(w) # n \/ n_train = 0 THEN {Raise("ValueError")}
        ELSE {[kind |-> "split",
               train |-> Ascending((1 .. n) \ T), test |-> Ascending(T)] :
                 T \in {T \in SUBSET (1 .. n) : Cardinality(T) = n_test}}

\* the candidates of the pruning path with the Brier loss of each
PrunePaths ==
    {c \in SeqsUpTo([ccp_alpha : CcpGrid, loss : LossGrid], 2) :
        \A i \in 1 .. Len(c) - 1 : c[i].ccp_alpha < c[i + 1].ccp_alpha}

\* the loop with a later candidate of equal loss taking over, for comparison
RECURSIVE PruneLoopLastWins(_, _, _)
PruneLoopLastWins(cands, i, best) ==
    IF i > Len(cands) THEN best
    ELSE PruneLoopLastWins(cands, i + 1,
            IF ~best.set \/ cands[i].loss <= best.loss
            THEN [set |-> TRUE, loss |-> cands[i].loss,
                  ccp_alpha |-> cands[i].ccp_alpha]
            ELSE best)

\* the loop of prune_tree from candidate i on; best.set is false while
\* current_loss is still inf and optim_ccp unbound
RECURSIVE PruneLoop(_, _, _)
PruneLoop(cands, i, best) ==
    IF i > Len(cands) THEN best
    ELSE PruneLoop(cands, i + 1,
            IF ~best.set \/ cands[i].loss < best.loss
            THEN [set |-> TRUE, loss |-> cands[i].loss,
                  ccp_alpha |-> cands[i].ccp_alpha]
            ELSE best)

PruneTree(cands) ==
    LET best == PruneLoop(cands, 1, [set |-> FALSE, loss |-> 0, ccp_alpha |-> 0])
    IN  IF best.set THEN [kind |-> "float", v |-> best.ccp_alpha]
        ELSE Raise("UnboundLocalError")

\* brier_score_loss(w_valid, preds_ccp) for 0/1 predictions: the mean of
\* (w_valid - preds_ccp)^2
BrierScoreLoss(w_valid, preds_ccp) ==
    NpMean([i \in 1 .. Len(w_valid) |->
              IF w_valid[i] = preds_ccp[i] THEN 0 ELSE One])

\* prune_tree when the pruning path is path: each candidate has the
\* predictions on X_valid of the clone fitted with its ccp_alpha
PruneTreeOn(w_valid, path) ==
    PruneTree([i \in 1 .. Len(path) |->
                 [ccp_alpha |-> path[i].ccp_alpha,
                  loss |-> BrierScoreLoss(w_valid, path[i].preds)]])

WithModel(S, m) == [S EXCEPT !.model = m, !.attrs = @ \cup {"model"}]

\* the CART branch of _init_coverage_evaluator
InitCart(S) ==
    LET S1 == WithModel(S, DecisionTreeClassifier)
        fits(est) ==
            {IF IsRaise(f) THEN Failed(WithModel(S, est), f.exc)
             ELSE Done(WithModel(S, f.obj)) :
                 f \in EstFit(est, S.X_train, S.w_train)}
        halves == TrainTestSplit(S.X_train, S.w_train, <<1, 2>>)
    IN  IF prune
        THEN IF \E sp \in halves : IsRaise(sp)
             THEN {Failed(S1, sp.exc) : sp \in halves}
             ELSE UNION {
                    IF IsRaise(optim_ccp) THEN {Failed(S1, optim_ccp.exc)}
                    ELSE fits([DecisionTreeClassifier
                                 EXCEPT !.ccp_alpha = optim_ccp.v]) :
                    optim_ccp \in {PruneTree(cands) : cands \in PrunePaths}}
        ELSE fits(DecisionTreeClassifier)

\* the RF and GAM branches: the new object is assigned once fit returned
InitFresh(S, est) ==
    {IF IsRaise(f) THEN Failed(S, f.exc) ELSE Done(WithModel(S, f.obj)) :
        f \in EstFit(est, S.X_train, S.w_train)}

\* the else branch: set_params and fit on the object the caller supplied,
\* which fit returns: self.model is that same object
InitCustom(S) ==
    IF S.coverage_evaluator.tag # "object"
    THEN {Failed(S, "AttributeError")}
    ELSE {IF IsRaise(f) THEN Failed(S, f.exc)
          ELSE Done([WithModel(S, f.obj) EXCEPT !.coverage_evaluator.est = f.obj]) :
             f \in EstFit(S.coverage_evaluator.est, S.X_train, S.w_train)}

InitCoverageEvaluator(S) ==
    IF S.coverage_evaluator.tag = "CART" THEN InitCart(S)
    ELSE IF S.coverage_evaluator.tag = "RF" THEN InitFresh(S, RandomForestClassifier)
    ELSE IF S.coverage_evaluator.tag = "GAM" THEN InitFresh(S, LogisticGAM)
    ELSE InitCustom(S)

\* fit(X_calib, y_calib, test_size): every way the call can end
FitOutcomes(S, X, y, ts) ==
    LET preds == Intervals(nc, islcp, conf, X, alpha).preds
        w == IF IsRaise(preds) THEN preds ELSE Label(y, preds.v)
    IN  IF IsRaise(w) THEN {Failed(S, w.exc)}
        ELSE IF split_train
        THEN UNION {
               IF IsRaise(sp) THEN {Failed(S, sp.exc)}
               ELSE InitCoverageEvaluator(
                      [S EXCEPT !.X_train = Rows(X, sp.train),
                                !.X_test = Rows(X, sp.test),
                                !.w_train = Rows(w.v, sp.train),
                                !.w_test = Rows(w.v, sp.test),
                                !.attrs = @ \cup {"X_train", "X_test",
                                                  "w_train", "w_test"}]) :
               sp \in TrainTestSplit(X, w.v, ts)}
        ELSE InitCoverageEvaluator(
               [S EXCEPT !.X_train = X, !.w_train = w.v,
                         !.attrs = @ \cup {"X_train", "w_train"}])

SetSelf(S) ==
    /\ attrs' = S.attrs
    /\ X_train' = S.X_train
    /\ X_test' = S.X_test
    /\ w_train' = S.w_train
    /\ w_test' = S.w_test
    /\ model' = S.model
    /\ coverage_evaluator' = S.coverage_evaluator

\* The calibration samples fit is called with: n feature rows 1, 2, 1, ...
\* (so conf's intervals are [1, 2], [2, 3], [1, 2], ...) and m targets that
\* are all covered, all missed, or alternately covered and missed.
CalibX(n) == [i \in 1 .. n |-> IF i % 2 = 1 THEN 1 ELSE 2]
CalibY(m) ==
    {[i \in 1 .. m |-> 2], [i \in 1 .. m |-> 4],
     [i \in 1 .. m |-> IF i % 2 = 1 THEN 2 ELSE 4],
     [i \in 1 .. m |-> IF i % 2 = 1 THEN 4 ELSE 2]}
\* the targets of a call whose y has one row more or fewer than X
CalibYOff(n) ==
    {[i \in 1 .. m |-> IF i % 2 = 1 THEN 2 ELSE 4] :
       m \in {n - 1, n + 1} \cap (1 .. MaxN)}
CalibSamples ==
    UNION {{[X |-> CalibX(n), y |-> y] : y \in CalibY(n) \cup CalibYOff(n)} :
           n \in 1 .. MaxN}

\* the test_size values tried on a sample: the default, and on the largest
\* samples (the only ones they split differently) one half as well
SizesFor(c) == IF Len(c.X) = MaxN THEN TestSizes ELSE {<<1, 5>>}

Fit ==
    /\ pc = "idle"
    /\ \E c \in CalibSamples : \E ts \in SizesFor(c) :
       LET X == c.X
           y == c.y
       IN
         \E o \in FitOutcomes(Self, X, y, ts) :
            /\ SetSelf(o.self)
            /\ call' = [op |-> "fit", n_X |-> Len(X), n_y |-> Len(y)]
            /\ ret' = IF o.exc = "none" THEN [kind |-> "self"] ELSE Raise(o.exc)
    /\ prev_dif' = None
    /\ NoLocals
    /\ pool' = NoPool
    /\ UNCHANGED <<conf, nc, islcp, alpha, prune, split_train, pc>>

(* ------------------------ predict, compute_dif ------------------------ *)
\* predict(X_test): falls off the end, returning None, when no branch applies
Predict(S, X) ==
    IF "model" \notin S.attrs THEN Raise("AttributeError")
    ELSE IF S.coverage_evaluator.tag = "RF" \/ IsSklearn(S.model)
    THEN LET pred == PredictProba(S.model, X)
         IN  IF IsRaise(pred) THEN pred
             ELSE IF Len(X) = 0 THEN Raise("IndexError")
             ELSE PositiveColumn(pred)
    ELSE IF S.coverage_evaluator.tag = "GAM" THEN PredictProba(S.model, X)
    ELSE IF S.coverage_evaluator.tag = "nnet" THEN PredictFlat(S.model, X)
    ELSE None

\* the fold compute_dif predicts on
DifFold == IF split_train THEN "X_test" ELSE "X_train"

Tuple(v) == [kind |-> "tuple", v |-> v]

\* compute_dif(): (t_obs, t_max), or what it raises
ComputeDif(S) ==
    IF DifFold \notin S.attrs THEN Raise("AttributeError")
    ELSE LET r == Predict(S, IF split_train THEN S.X_test ELSE S.X_train)
         IN  IF IsRaise(r) THEN r
             ELSE IF r.kind = "None" THEN Raise("TypeError")
             ELSE Tuple(<<NpMean(AbsDev(Flat(r), alpha)),
                          NpMax(AbsDev(Flat(r), alpha))>>)

WasDif == IF call.op = "compute_dif" THEN ret ELSE None

CallPredict ==
    /\ pc = "idle"
    /\ \E X \in {CalibX(n) : n \in 1 .. MaxPredictRows} :
         /\ call' = [op |-> "predict", X |-> X]
         /\ ret' = Predict(Self, X)
    /\ prev_dif' = None
    /\ NoLocals
    /\ pool' = NoPool
    /\ UNCHANGED <<objVars, pc>>

\* a compute_dif that would drop the fitted state of self.model, for comparison
ComputeDifRefitting ==
    /\ pc = "idle"
    /\ call' = [op |-> "compute_dif"]
    /\ ret' = ComputeDif(Self)
    /\ prev_dif' = WasDif
    /\ model' = Clone(model)
    /\ NoLocals
    /\ pool' = NoPool
    /\ UNCHANGED <<conf, nc, islcp, alpha, coverage_evaluator, prune, split_train, attrs,
                   X_train, X_test, w_train, w_test, pc>>

CallComputeDif ==
    /\ pc = "idle"
    /\ call' = [op |-> "compute_dif"]
    /\ ret' = ComputeDif(Self)
    /\ prev_dif' = WasDif
    /\ NoLocals
    /\ pool' = NoPool
    /\ UNCHANGED <<objVars, pc>>

(* ------------------- one repetition, both modes ----------------------- *)
Float(v) == [kind |-> "float", v |-> v]
Pending == [kind |-> "pending"]

\* self.retrain(X_train, new_w, X_test) when the learner settles on f
Retrain(S, Xtr, new_w, Xte, f) ==
    IF S.coverage_evaluator.tag = "RF" \/ IsSklearn(S.model)
    THEN LET model_temp == EstFitWith(Clone(S.model), Xtr, new_w, f)
         IN  IF IsRaise(model_temp) THEN model_temp
             ELSE LET pred == PredictProba(model_temp.obj, S.X_test)
                  IN  IF IsRaise(pred) THEN pred ELSE PositiveColumn(pred)
    ELSE IF S.coverage_evaluator.tag = "GAM"
    THEN Raise("AttributeError")   \* LogisticGAM has gridsearch, no grid_search
    ELSE LET model_temp == EstFitWith(S.model, Xtr, new_w, f)
         IN  IF IsRaise(model_temp) THEN model_temp
             ELSE PredictFlat(model_temp.obj, Xte)

\* retrain_par(coverage_evaluator, model, X_train, new_w, X_test)
RetrainPar(ce, m, Xtr, new_w, Xte, f) ==
    IF ce.tag = "RF" \/ IsSklearn(m)
    THEN LET model_temp == EstFitWith(Clone(m), Xtr, new_w, f)
         IN  IF IsRaise(model_temp) THEN model_temp
             ELSE LET pred == PredictProba(model_temp.obj, Xte)
                  IN  IF IsRaise(pred) THEN pred ELSE PositiveColumn(pred)
    ELSE IF ce.tag = "GAM"
    THEN Raise("AttributeError")
    ELSE LET cpu == MoveToCpu(m)
         IN  IF IsRaise(cpu) THEN cpu
             ELSE LET model_temp == EstFitWith(cpu, Xtr, new_w, f)
                  IN  IF IsRaise(model_temp) THEN model_temp
                      ELSE PredictFlat(model_temp.obj, Xte)

\* the body of the sequential loop of monte_carlo_test for the draw (new_w, f)
McRepetition(S, new_w, f) ==
    IF "X_test" \notin S.attrs THEN Raise("AttributeError")
    ELSE LET new_r == Retrain(S, S.X_train, new_w, S.X_test, f)
         IN  IF IsRaise(new_r) THEN new_r
             ELSE Float(MeanAbsDev(Flat(new_r), alpha))

\* _retrain_loop_par(coverage_evaluator, model, alpha, X_train, w_train,
\* X_test, seed) for the draw (new_w, f) its seed gives
RetrainLoopPar(ce, m, a, Xtr, wtr, Xte, seed, new_w, f) ==
    LET new_r == RetrainPar(ce, m, Xtr, new_w, Xte, f)
    IN  IF IsRaise(new_r) THEN new_r
        ELSE Float(MeanAbsDev(Flat(new_r), a))

\* the draws of one Monte Carlo repetition: a 0/1 vector of n entries
\* (stats.binom.rvs) and the predictor the learner settles on for it
McDraws(m, n) ==
    UNION {{[w |-> w, f |-> f] : f \in Predictors(m, Range(w))} :
             w \in [1 .. n -> {0, 1}]}

(* --------------------------- monte_carlo_test ------------------------- *)
RandomSeed == 1250

\* np.random.randint(1e8, size=B) after np.random.seed(master): the k-th
\* number of the stream that master starts
SubSeeds(master, B) == [k \in 1 .. B |-> <<master, k>>]

Task(func, args) == [func |-> func, args |-> args, res |-> Pending]

\* a > b for arrays a, b under numpy's broadcasting
Greater(a, b) ==
    IF Len(a) = Len(b) THEN NdArray(1, [i \in 1 .. Len(a) |-> a[i] > b[i]])
    ELSE IF Len(a) = 1 THEN NdArray(1, [i \in 1 .. Len(b) |-> a[1] > b[i]])
    ELSE IF Len(b) = 1 THEN NdArray(1, [i \in 1 .. Len(a) |-> a[i] > b[1]])
    ELSE Raise("ValueError")

\* the mean of a boolean array, as the fraction it is the float of
BoolMean(v) ==
    [kind |-> "float",
     num |-> Cardinality({i \in 1 .. Len(v) : v[i]}), den |-> Len(v)]

\* (t_b > t_obs).mean() and the dict monte_carlo_test returns
McResult(tb, tobs) ==
    LET gt == Greater(tb, tobs.v)
    IN  IF IsRaise(gt) THEN gt
        ELSE [kind |-> "dict", p_value |-> BoolMean(gt.v), observed |-> tobs]

McArgs(S, seed) ==
    <<S.coverage_evaluator, S.model, alpha, S.X_train, S.w_train, S.X_test, seed>>

\* monte_carlo_test(B, random_seed, par) up to the first repetition
McCall ==
    /\ pc = "idle"
    /\ \E B \in 1 .. MaxB, par \in BOOLEAN :
       \E cpus \in (IF par THEN 1 .. MaxCpus ELSE {1}) :
       LET dif == ComputeDif(Self)
       IN  /\ call' = [op |-> "monte_carlo_test", B |-> B, par |-> par]
           /\ t_b' = <<>>
           /\ tasks' = <<>>
           /\ IF IsRaise(dif)
              THEN /\ ret' = dif
                   /\ pool' = NoPool
                   /\ UNCHANGED pc
                   /\ t_obs' = None /\ seeds' = <<>>
              ELSE IF ~par
              THEN /\ pc' = "mc_seq"
                   /\ t_obs' = dif
                   /\ ret' = None
                   /\ seeds' = <<>>
                   /\ pool' = NoPool
              ELSE IF cpus - 1 < 1
              THEN /\ ret' = Raise("ValueError")
                   /\ pool' = NoPool
                   /\ UNCHANGED pc
                   /\ t_obs' = None /\ seeds' = <<>>
              ELSE /\ pc' = "mc_submit"
                   /\ t_obs' = dif
                   /\ ret' = None
                   /\ pool' = [status |-> "open", size |-> cpus - 1, unfinished |-> 0]
                   /\ seeds' = SubSeeds(RandomSeed, B)
    /\ prev_dif' = None
    /\ UNCHANGED objVars

\* a pass that would keep the refitted evaluator as self.model, for comparison
McIterInPlace ==
    /\ pc = "mc_seq"
    /\ Len(t_b) < call.B
    /\ \E d \in McDraws(Clone(model), Len(w_train)) :
       LET t == McRepetition(Self, d.w, d.f)
       IN  /\ IF IsRaise(t)
              THEN /\ ret' = t
                   /\ pc' = "idle"
                   /\ t_obs' = None
                   /\ t_b' = <<>>
                   /\ UNCHANGED model
              ELSE /\ t_b' = Append(t_b, t.v)
                   /\ model' = EstFitWith(Clone(model), X_train, d.w, d.f).obj
                   /\ UNCHANGED <<ret, pc, t_obs>>
    /\ UNCHANGED <<conf, nc, islcp, alpha, coverage_evaluator, prune,
                   split_train, attrs, X_train, X_test, w_train, w_test>>
    /\ UNCHANGED <<call, prev_dif, tasks, seeds, pool>>

\* one pass of the sequential loop
McIter ==
    /\ pc = "mc_seq"
    /\ Len(t_b) < call.B
    /\ \E d \in McDraws(Clone(model), Len(w_train)) :
       LET t == McRepetition(Self, d.w, d.f)
       IN  /\ IF IsRaise(t)
              THEN /\ ret' = t
                   /\ pc' = "idle"
                   /\ t_obs' = None
                   /\ t_b' = <<>>
              ELSE /\ t_b' = Append(t_b, t.v)
                   /\ UNCHANGED <<ret, pc, t_obs>>
    /\ UNCHANGED <<objVars, call, prev_dif, tasks, seeds, pool>>

(* --------------------------- the worker pool -------------------------- *)
\* the index vector as long as the fold, for comparison
RandIntFoldSize(n, size) == [1 .. n -> 1 .. n]

\* np.random.randint(n, size=size): the index vectors it may draw (rows
\* are numbered from 1 here)
RandInt(n, size) == [1 .. size -> 1 .. n]

\* X_train[new_indexes, :], w_train[new_indexes]
Resample(X, w, new_indexes) ==
    [X |-> Rows(X, new_indexes), w |-> Rows(w, new_indexes)]

\* bootstrap_par(B, alpha, coverage_evaluator, model, X_train, w_train,
\* X_test, seed) for the draw (new_indexes, f) its seed gives
BootstrapPar(B, a, ce, m, Xtr, wtr, Xte, seed, new_indexes, f) ==
    LET new == Resample(Xtr, wtr, new_indexes)
        new_r == RetrainPar(ce, m, new.X, new.w, Xte, f)
    IN  IF IsRaise(new_r) THEN new_r
        ELSE Float(MeanAbsDev(Flat(new_r), a))

\* the number of parameters of the worker functions
Arity(func) == IF func = "_retrain_loop_par" THEN 7 ELSE 8

\* the draws of one bootstrap repetition: B row numbers out of n
\* (np.random.randint(n, size=B)) and the learner's predictor for those rows
BsDraws(m, w, B) ==
    UNION {{[idx |-> idx, f |-> f] : f \in Predictors(m, Range(Rows(w, idx)))} :
             idx \in RandInt(Len(w), B)}

NoDraw == [none |-> TRUE]

\* what the seed of a task may draw; nothing when the call does not bind
TaskDraws(t) ==
    IF Len(t.args) # Arity(t.func) THEN {NoDraw}
    ELSE IF t.func = "_retrain_loop_par"
    THEN McDraws(Clone(t.args[2]), Len(t.args[5]))
    ELSE BsDraws(Clone(t.args[4]), t.args[6], t.args[1])

\* func(*args) in a worker, for the draw d
ApplyTask(t, d) ==
    LET a == t.args
    IN  IF Len(a) # Arity(t.func) THEN Raise("TypeError")
        ELSE IF t.func = "_retrain_loop_par"
        THEN RetrainLoopPar(a[1], a[2], a[3], a[4], a[5], a[6], a[7], d.w, d.f)
        ELSE BootstrapPar(a[1], a[2], a[3], a[4], a[5], a[6], a[7], a[8], d.idx, d.f)

\* the tasks the pool's workers may be running: the first pool.size of
\* those not finished, since workers take tasks in submission order
Runnable ==
    LET open == {k \in 1 .. Len(tasks) : tasks[k].res = Pending}
    IN  {k \in open : Cardinality({j \in open : j < k}) < pool.size}

\* a worker finishes task k
RunTask ==
    /\ pc \in {"mc_submit", "bs_submit", "mc_par", "bs_par"}
    /\ \E k \in Runnable :
         \E d \in TaskDraws(tasks[k]) :
            /\ tasks' = [tasks EXCEPT ![k].res = ApplyTask(tasks[k], d)]
    /\ pool' = [pool EXCEPT !.unfinished = @ - 1]
    /\ UNCHANGED <<objVars, pc, call, ret, prev_dif, t_obs, t_b, seeds>>

\* results taken in the order the tasks finish, for comparison
GetResultAsCompleted ==
    /\ pc \in {"mc_par", "bs_par"}
    /\ Len(t_b) < call.B
    /\ \E k \in Len(t_b) + 1 .. Len(tasks) :
         /\ tasks[k].res.kind = "float"
         /\ t_b' = Append(t_b, tasks[k].res.v)
    /\ UNCHANGED <<objVars, pc, call, ret, prev_dif, t_obs, tasks, seeds, pool>>

\* a get that would submit a failed task again, for comparison
GetResultRetrying ==
    /\ pc \in {"mc_par", "bs_par"}
    /\ Len(t_b) < call.B
    /\ LET k == Len(t_b) + 1
       IN  /\ tasks[k].res # Pending
           /\ IF IsRaise(tasks[k].res)
              THEN /\ tasks' = [tasks EXCEPT ![k].res = Pending]
                   /\ pool' = [pool EXCEPT !.unfinished = @ + 1]
                   /\ UNCHANGED t_b
              ELSE /\ t_b' = Append(t_b, tasks[k].res.v)
                   /\ UNCHANGED <<tasks, pool>>
    /\ UNCHANGED <<objVars, pc, call, ret, prev_dif, t_obs, seeds>>

\* result.get() of the next AsyncResult, once its task has finished; get
\* re-raises what the task raised, and the pool is then left as it is
GetResult ==
    /\ pc \in {"mc_par", "bs_par"}
    /\ Len(t_b) < call.B
    /\ LET res == tasks[Len(t_b) + 1].res
       IN  /\ res # Pending
           /\ IF IsRaise(res)
              THEN /\ ret' = res
                   /\ pc' = "idle"
                   /\ t_obs' = None
                   /\ tasks' = <<>>
                   /\ seeds' = <<>>
                   /\ t_b' = <<>>
              ELSE /\ t_b' = Append(t_b, res.v)
                   /\ UNCHANGED <<ret, pc, t_obs, tasks, seeds>>
    /\ UNCHANGED <<objVars, call, prev_dif, pool>>

\* a return that leaves the pool as it is, for comparison
LeftOpen == pool

\* pool.close(); pool.join(), in parallel mode, after the last get
Joined == IF call.par THEN [pool EXCEPT !.status = "joined"] ELSE pool

\* the end of monte_carlo_test: the p-value and the return
McReturn ==
    /\ pc \in {"mc_seq", "mc_par"}
    /\ Len(t_b) = call.B
    /\ pool' = Joined
    /\ ret' = McResult(t_b, t_obs)
    /\ pc' = "idle"
    /\ t_obs' = None
    /\ tasks' = <<>>
    /\ seeds' = <<>>
    /\ t_b' = <<>>
    /\ UNCHANGED <<objVars, call, prev_dif>>

(* ----------------------------- bootstrap_ci --------------------------- *)
\* the arguments bootstrap_ci passes to apply_async
BsArgs(S, B, seed) ==
    <<B, alpha, S.coverage_evaluator, S.model, alpha,
      S.X_train, S.w_train, S.X_test, seed>>

\* every pass taking the first sub-seed, for comparison
TaskSeedFirst(k) == seeds[1]

\* for seed in seeds: the seed of the k-th pass
TaskSeed(k) == seeds[k]

\* one pass of the loop that submits the tasks: pool.apply_async(...) and
\* t_b.append(result); the list of results is read once the loop is over
Submit ==
    /\ pc \in {"mc_submit", "bs_submit"}
    /\ Len(tasks) < call.B
    /\ LET k == Len(tasks) + 1
           t == IF pc = "mc_submit"
                THEN Task("_retrain_loop_par", McArgs(Self, TaskSeed(k)))
                ELSE Task("bootstrap_par", BsArgs(Self, call.B, TaskSeed(k)))
       IN  IF "X_test" \notin attrs
           THEN /\ ret' = Raise("AttributeError")
                /\ pc' = "idle"
                /\ t_obs' = None
                /\ tasks' = <<>>
                /\ seeds' = <<>>
                /\ UNCHANGED pool
           ELSE /\ tasks' = Append(tasks, t)
                /\ pool' = [pool EXCEPT !.unfinished = @ + 1]
                /\ pc' = IF k < call.B THEN pc
                         ELSE IF pc = "mc_submit" THEN "mc_par" ELSE "bs_par"
                /\ UNCHANGED <<ret, t_obs, seeds>>
    /\ UNCHANGED <<objVars, call, prev_dif, t_b>>

\* r = self.predict(self.X_test); t_obs = np.mean(np.abs(r - (1 - alpha)))
BsObserved(S) ==
    IF "X_test" \notin S.attrs THEN Raise("AttributeError")
    ELSE LET r == Predict(S, S.X_test)
         IN  IF IsRaise(r) THEN r
             ELSE IF r.kind = "None" THEN Raise("TypeError")
             ELSE Float(MeanAbsDev(Flat(r), alpha))

\* the body of the sequential loop of bootstrap_ci for the draw (idx, f)
BsRepetition(S, new_indexes, f) ==
    LET new == Resample(S.X_train, S.w_train, new_indexes)
        new_r == Retrain(S, new.X, new.w, S.X_test, f)
    IN  IF IsRaise(new_r) THEN new_r
        ELSE Float(MeanAbsDev(Flat(new_r), alpha))

\* bootstrap_ci(B, sig_b, random_seed, par) up to the first repetition
BsCall ==
    /\ pc = "idle"
    /\ \E B \in 1 .. MaxB, par \in BOOLEAN :
       \E cpus \in (IF par THEN 1 .. MaxCpus ELSE {1}) :
       \E sig_b \in SigGrid :
       LET obs == BsObserved(Self)
       IN  /\ call' = [op |-> "bootstrap_ci", B |-> B, par |-> par, sig_b |-> sig_b]
           /\ t_b' = <<>>
           /\ tasks' = <<>>
           /\ IF IsRaise(obs)
              THEN /\ ret' = obs
                   /\ pool' = NoPool
                   /\ UNCHANGED pc
                   /\ t_obs' = None /\ seeds' = <<>>
              ELSE IF ~par
              THEN /\ pc' = "bs_seq"
                   /\ t_obs' = obs
                   /\ ret' = None
                   /\ seeds' = <<>>
                   /\ pool' = NoPool
              ELSE IF cpus - 1 < 1
              THEN /\ ret' = Raise("ValueError")
                   /\ pool' = NoPool
                   /\ UNCHANGED pc
                   /\ t_obs' = None /\ seeds' = <<>>
              ELSE /\ pc' = "bs_submit"
                   /\ t_obs' = obs
                   /\ ret' = None
                   /\ pool' = [status |-> "open", size |-> cpus - 1, unfinished |-> 0]
                   /\ seeds' = SubSeeds(RandomSeed, B)
    /\ prev_dif' = None
    /\ UNCHANGED objVars

\* one pass of the sequential loop
BsIter ==
    /\ pc = "bs_seq"
    /\ Len(t_b) < call.B
    /\ \E d \in BsDraws(Clone(model), w_train, call.B) :
       LET t == BsRepetition(Self, d.idx, d.f)
       IN  /\ IF IsRaise(t)
              THEN /\ ret' = t
                   /\ pc' = "idle"
                   /\ t_obs' = None
                   /\ t_b' = <<>>
              ELSE /\ t_b' = Append(t_b, t.v)
                   /\ UNCHANGED <<ret, pc, t_obs>>
    /\ UNCHANGED <<objVars, call, prev_dif, tasks, seeds, pool>>

\* the statistics after the loop: epb divides by zero when B is 1;
\* otherwise the dict of t_obs, se_int and percent_int
BsResult(t_vec, tobs, B, sig) ==
    IF B - 1 = 0 THEN Raise("ZeroDivisionError")
    ELSE LET half == FMul(NormPpf(sig), Epb(t_vec, B))
         IN  [kind |-> "dict",
              t_obs |-> tobs,
              se_int |-> <<FSub(tobs.v, half), FSub(tobs.v, 0 - half)>>,
              percent_int |-> <<Quantile(t_vec, sig[1], 2 * sig[2]),
                                Quantile(t_vec, 2 * sig[2] - sig[1], 2 * sig[2])>>]

\* the end of bootstrap_ci
BsReturn ==
    /\ pc \in {"bs_seq", "bs_par"}
    /\ Len(t_b) = call.B
    /\ pool' = Joined
    /\ ret' = BsResult(t_b, t_obs, call.B, call.sig_b)
    /\ pc' = "idle"
    /\ t_obs' = None
    /\ tasks' = <<>>
    /\ seeds' = <<>>
    /\ t_b' = <<>>
    /\ UNCHANGED <<objVars, call, prev_dif>>

(* ---------------------------- specification --------------------------- *)
vars == <<objVars, pc, call, ret, prev_dif, t_obs, t_b, tasks, seeds, pool>>

Init ==
    /\ conf = PlainConf
    /\ nc = FALSE
    /\ islcp = FALSE
    /\ alpha \in AlphaGrid
    /\ coverage_evaluator \in Evaluators
    /\ prune \in (IF coverage_evaluator.tag = "CART" THEN BOOLEAN ELSE {TRUE})
    /\ split_train \in BOOLEAN
    /\ attrs = {}
    /\ X_train = <<>> /\ X_test = <<>> /\ w_train = <<>> /\ w_test = <<>>
    /\ model = NoObject
    /\ pc = "idle"
    /\ call = [op |-> "init"]
    /\ ret = None
    /\ prev_dif = None
    /\ t_obs = None
    /\ t_b = <<>>
    /\ tasks = <<>>
    /\ seeds = <<>>
    /\ pool = NoPool

Next ==
    \/ Fit
    \/ CallPredict
    \/ CallComputeDif
    \/ McCall
    \/ McIter
    \/ McReturn
    \/ BsCall
    \/ BsIter
    \/ BsReturn
    \/ Submit
    \/ RunTask
    \/ GetResult

Spec == Init /\ [][Next]_vars

(* ------------- fits in both modes on the same object ------------------ *)
\* self.split_train = v: the caller changes the mode between two calls
SetSplitTrain ==
    /\ pc = "idle"
    /\ split_train' = ~split_train
    /\ call' = [op |-> "set_split_train"]
    /\ ret' = None
    /\ prev_dif' = None
    /\ NoLocals
    /\ pool' = NoPool
    /\ UNCHANGED <<conf, nc, islcp, alpha, coverage_evaluator, prune, attrs,
                   X_train, X_test, w_train, w_test, model, pc>>

\* an object of the RF family, in either mode
InitSwitch ==
    /\ Init
    /\ coverage_evaluator = Tag("RF")

\* monte_carlo_test(B=1, ...)
McCallOnce == McCall /\ call'.B = 1

\* fits, changes of mode and Monte Carlo tests of one repetition, in any order
NextSwitch ==
    \/ Fit
    \/ SetSplitTrain
    \/ McCallOnce
    \/ McIter
    \/ McReturn
    \/ Submit
    \/ RunTask
    \/ GetResult

SpecSwitch == InitSwitch /\ [][NextSwitch]_vars

(* ------------------- the labelling step on its own -------------------- *)
\* the (y_calib, preds) pairs of a calibration sample of up to MaxN rows
LabelInputs ==
    UNION {{[op |-> "label", y |-> y, preds |-> ConfPredict(X)] :
              y \in [1 .. n -> Yvals], X \in [1 .. n -> Xvals]} : n \in 1 .. MaxN}

InitLabel ==
    /\ conf = PlainConf
    /\ nc = FALSE
    /\ islcp = FALSE
    /\ alpha \in AlphaGrid
    /\ coverage_evaluator = Tag("CART")
    /\ prune = TRUE
    /\ split_train = TRUE
    /\ attrs = {}
    /\ X_train = <<>>
    /\ X_test = <<>>
    /\ w_train = <<>>
    /\ w_test = <<>>
    /\ model = NoObject
    /\ pc = "label"
    /\ call \in LabelInputs
    /\ ret = None
    /\ prev_dif = None
    /\ t_obs = None
    /\ t_b = <<>>
    /\ tasks = <<>>
    /\ seeds = <<>>
    /\ pool = NoPool

\* lines 108-110 of fit: w = np.zeros(...) and the loop that fills it
LabelStep ==
    /\ pc = "label"
    /\ ret' = Label(call.y, call.preds)
    /\ pc' = "labelled"
    /\ UNCHANGED <<objVars, call, prev_dif, t_obs, t_b, tasks, seeds, pool>>

NextLabel == LabelStep

SpecLabel == InitLabel /\ [][NextLabel]_vars

(* ------------------ the interval adapter on its own ------------------- *)
\* the object after construction with any flags and any predictor, and the
\* X_calib of a fit call
InitAdapter ==
    /\ conf \in Confs
    /\ nc \in BOOLEAN
    /\ islcp \in BOOLEAN
    /\ alpha \in AlphaGrid
    /\ coverage_evaluator = Tag("CART")
    /\ prune = TRUE
    /\ split_train = TRUE
    /\ attrs = {}
    /\ X_train = <<>>
    /\ X_test = <<>>
    /\ w_train = <<>>
    /\ w_test = <<>>
    /\ model = NoObject
    /\ pc = "adapter"
    /\ call \in UNION {{[op |-> "intervals", X |-> X] : X \in [1 .. n -> Xvals]} :
                        n \in 1 .. MaxN}
    /\ ret = None
    /\ prev_dif = None
    /\ t_obs = None
    /\ t_b = <<>>
    /\ tasks = <<>>
    /\ seeds = <<>>
    /\ pool = NoPool

\* lines 100-105 of fit
AdapterStep ==
    /\ pc = "adapter"
    /\ ret' = [kind |-> "intervals"] @@ Intervals(nc, islcp, conf, call.X, alpha)
    /\ pc' = "adapted"
    /\ UNCHANGED <<objVars, call, prev_dif, t_obs, t_b, tasks, seeds, pool>>

NextAdapter == AdapterStep

SpecAdapter == InitAdapter /\ [][NextAdapter]_vars

(* ------------------- the bootstrap resample on its own ---------------- *)
\* an object holding a training fold, and the B of a bootstrap_ci call
InitResample ==
    /\ conf = PlainConf
    /\ nc = FALSE
    /\ islcp = FALSE
    /\ alpha \in AlphaGrid
    /\ coverage_evaluator = Tag("RF")
    /\ prune = TRUE
    /\ split_train = FALSE
    /\ attrs = {"X_train", "w_train"}
    /\ \E n \in 1 .. MaxN :
         /\ X_train \in [1 .. n -> Xvals]
         /\ w_train \in [1 .. n -> {0, 1}]
    /\ X_test = <<>>
    /\ w_test = <<>>
    /\ model = NoObject
    /\ pc = "resample"
    /\ call \in {[op |-> "resample", B |-> B] : B \in 1 .. MaxB}
    /\ ret = None
    /\ prev_dif = None
    /\ t_obs = None
    /\ t_b = <<>>
    /\ tasks = <<>>
    /\ seeds = <<>>
    /\ pool = NoPool

\* lines 305-309 of bootstrap_ci, lines 51-52 of bootstrap_par
ResampleStep ==
    /\ pc = "resample"
    /\ \E new_indexes \in RandInt(Len(X_train), call.B) :
         ret' = [kind |-> "resample", new_indexes |-> new_indexes,
                 new |-> Resample(X_train, w_train, new_indexes)]
    /\ pc' = "resampled"
    /\ UNCHANGED <<objVars, call, prev_dif, t_obs, t_b, tasks, seeds, pool>>

NextResample == ResampleStep

SpecResample == InitResample /\ [][NextResample]_vars

(* ------------------------- prune_tree on its own ---------------------- *)
\* the pruning paths over n validation rows: candidates in increasing
\* order of ccp_alpha, possibly none
PathsOver(n) ==
    {c \in {<<>>} \cup SeqsUpTo([ccp_alpha : CcpGrid, preds : [1 .. n -> {0, 1}]], 2) :
        \A i \in 1 .. Len(c) - 1 : c[i].ccp_alpha < c[i + 1].ccp_alpha}

\* the object when _init_coverage_evaluator calls prune_tree: self.model is
\* the new unfitted tree; w_valid and the pruning path of the call
InitPrune ==
    /\ conf = PlainConf
    /\ nc = FALSE
    /\ islcp = FALSE
    /\ alpha \in AlphaGrid
    /\ coverage_evaluator = Tag("CART")
    /\ prune = TRUE
    /\ split_train = FALSE
    /\ attrs = {"X_train", "w_train", "model"}
    /\ \E n \in 2 .. MaxN :
         /\ X_train = [i \in 1 .. n |-> 1]
         /\ w_train = [i \in 1 .. n |-> 1]
         /\ call \in {[op |-> "prune_tree", w_valid |-> w, path |-> c] :
                         w \in [1 .. CeilDiv(n, 2) -> {0, 1}],
                         c \in PathsOver(CeilDiv(n, 2))}
    /\ X_test = <<>>
    /\ w_test = <<>>
    /\ model = DecisionTreeClassifier
    /\ pc = "prune"
    /\ ret = None
    /\ prev_dif = None
    /\ t_obs = None
    /\ t_b = <<>>
    /\ tasks = <<>>
    /\ seeds = <<>>
    /\ pool = NoPool

\* prune_tree(X_train, X_valid, w_train, w_valid)
PruneStep ==
    /\ pc = "prune"
    /\ ret' = PruneTreeOn(call.w_valid, call.path)
    /\ pc' = "pruned"
    /\ UNCHANGED <<objVars, call, prev_dif, t_obs, t_b, tasks, seeds, pool>>

NextPrune == PruneStep

SpecPrune == InitPrune /\ [][NextPrune]_vars

(* ------------------------------ properties ---------------------------- *)
\* C1: when monte_carlo_test has collected its B statistics, in either mode,
\* it returns the p-value (number of k in 1..B with t_b[k] strictly greater
\* than the scalar t_obs, the mean absolute deviation, first component of
\* compute_dif) / B.
C1_PValueIsFractionAbove ==
    [][McReturn =>
         /\ ret'.kind = "dict"
         /\ ret'.p_value.num * call.B =
              Cardinality({k \in 1 .. call.B : t_b[k] > t_obs.v[1]})
                * ret'.p_value.den]_vars

\* C2: every result monte_carlo_test returns holds a p_value that is one
\* number in [0, 1] and an observed statistic that is one non-negative
\* number, not a pair and not an array.
C2_TestResultShape ==
    (call.op = "monte_carlo_test" /\ pc = "idle" /\ ret.kind = "dict") =>
        /\ ret.p_value.kind = "float"
        /\ 0 <= ret.p_value.num /\ ret.p_value.num <= ret.p_value.den
        /\ ret.observed.kind = "float"
        /\ ret.observed.v >= 0

\* the fold compute_dif reads, and the deviations of the predictions on it
DifRows == IF split_train THEN X_test ELSE X_train
DifDev == AbsDev(Flat(Predict(Self, DifRows)), alpha)

\* C3 (as amended): what compute_dif returns is the pair (mean, max) of
\* |r_i - (1 - alpha)| over the predictions on the held-out fold (the
\* training fold in no-split mode), computed in floating point: the second
\* component is exactly the largest deviation, the first is the rounded mean,
\* both are >= 0, and the mean lies between the smallest and the largest
\* deviation up to n rounding errors: min * (1 - n * eps) <= mean <=
\* max * (1 + n * eps), eps = 2^(1 - Prec) being the machine epsilon.
C3_ComputeDifPair ==
    (call.op = "compute_dif" /\ ret.kind = "tuple") =>
        LET n == Len(DifDev)
            eps1 == Pow2(Prec - 1)
        IN  /\ n >= 1
            /\ Len(ret.v) = 2
            /\ ret.v[1] = NpMean(DifDev)
            /\ ret.v[2] \in Range(DifDev)
            /\ \A i \in 1 .. n :
                 /\ DifDev[i] = (IF Flat(Predict(Self, DifRows))[i] >= One - alpha
                                 THEN Flat(Predict(Self, DifRows))[i] - (One - alpha)
                                 ELSE (One - alpha) - Flat(Predict(Self, DifRows))[i])
                 /\ DifDev[i] <= ret.v[2]
            /\ ret.v[1] >= 0 /\ ret.v[2] >= 0
            /\ ret.v[1] * eps1 <= ret.v[2] * (eps1 + n)
            /\ \E i \in 1 .. n : DifDev[i] * (eps1 - n) <= ret.v[1] * eps1

\* compute_dif has returned a pair whose deviations are not all equal
C3_Witness ==
    /\ call.op = "compute_dif"
    /\ ret.kind = "tuple"
    /\ \E i \in 1 .. Len(DifDev) : DifDev[i] < ret.v[2]
    /\ ret.v[1] < ret.v[2]

\* C3 as first stated: max_abs_dev >= mean_abs_dev >= 0 for every pair
\* compute_dif returns.
C3_MaxAtLeastMean ==
    (call.op = "compute_dif" /\ ret.kind = "tuple") =>
        (ret.v[2] >= ret.v[1] /\ ret.v[1] >= 0)

\* C4: a step that is a call of compute_dif changes none of the object's
\* state, and when the call before it was compute_dif too it returns the
\* identical value.
C4_ComputeDifIdempotent ==
    [][call'.op = "compute_dif" =>
         /\ objVars' = objVars
         /\ (call.op = "compute_dif" => ret' = ret)]_vars

\* compute_dif has returned a pair twice in a row
C4_Witness ==
    /\ call.op = "compute_dif"
    /\ prev_dif.kind = "tuple"
    /\ ret.kind = "tuple"

\* C5: the labelling gives w one entry per row, each 0 or 1, and w_i = 1
\* exactly when lower_i <= y_i <= upper_i, both bounds inclusive.
C5_LabelInclusive ==
    pc = "labelled" =>
        /\ ret.kind = "ndarray"
        /\ Len(ret.v) = Len(call.y)
        /\ \A i \in 1 .. Len(call.y) :
             /\ ret.v[i] \in {0, 1}
             /\ ret.v[i] = 1 <=>
                  (call.preds[i][1] <= call.y[i] /\ call.y[i] <= call.preds[i][2])

\* a labelled sample with a target on a lower bound, one on an upper bound
\* and one outside its interval
C5_Witness ==
    /\ pc = "labelled"
    /\ \E i, j, k \in 1 .. Len(call.y) :
         /\ call.y[i] = call.preds[i][1] /\ ret.v[i] = 1
         /\ call.y[j] = call.preds[j][2] /\ ret.v[j] = 1
         /\ call.y[k] > call.preds[k][2] /\ ret.v[k] = 0

\* the evaluator has been fitted by fit and not replaced since
Fitted == "model" \in attrs /\ model.fitted

\* C6: on a fitted object of any family fit accepts, predict(X) returns an
\* array holding one probability in [0, 1] per row of X (a one-column table
\* is taken for a vector), never nothing.
C6_PredictReturnsVector ==
    (call.op = "predict" /\ Fitted) =>
        /\ ret.kind = "ndarray"
        /\ Len(ret.v) = Len(call.X)
        /\ \A i \in 1 .. Len(ret.v) : 0 <= Flat(ret)[i] /\ Flat(ret)[i] <= One

SupportedTags == {"CART", "RF", "GAM"}

\* C7: with a tag that is none of the supported ones and no estimator
\* object, fit fails with UnsupportedEvaluator, and no later operation
\* returns nothing.
C7_UnsupportedTagExplicit ==
    (coverage_evaluator.tag \notin SupportedTags \cup {"object"}) =>
        /\ call.op = "fit" => ret = Raise("UnsupportedEvaluator")
        /\ (call.op \notin {"init", "fit"} /\ pc = "idle") => ret # None

\* C8: when y is longer or shorter than X, fit fails in the labelling step
\* (the failure of the labelling loop itself is taken for ShapeMismatch),
\* before the split and before any fit of an evaluator, and assigns no fold.
C8_MismatchFailsAtLabeling ==
    (call.op = "fit" /\ call.n_X # call.n_y) =>
        ret \in {Raise("ShapeMismatch"), Raise("IndexError")}

\* C9: in both modes every repetition of monte_carlo_test on a fitted
\* object fits a new evaluator on (X_train, w*), predicts on the held-out
\* fold and records a statistic: no task of the pool ends in an error, and
\* a sequential call whose observed statistic was computed does not end in
\* the error of a repetition.
C9_EveryRepetitionRecords ==
    /\ pc = "mc_par" =>
         \A k \in 1 .. Len(tasks) : tasks[k].res.kind \in {"pending", "float"}
    /\ (call.op = "monte_carlo_test" /\ ~call.par /\ pc = "idle" /\ Fitted
          /\ split_train /\ IsRaise(ret)) =>
         (IsRaise(ComputeDif(Self)) \/ ret.exc = "ValueError")

\* C10: the arguments of every task bootstrap_ci dispatches match the
\* parameters of the worker function one to one, and every finished task
\* holds one scalar statistic.
C10_BootstrapTasksBind ==
    pc = "bs_par" =>
        \A k \in 1 .. Len(tasks) :
            /\ Len(tasks[k].args) = Arity(tasks[k].func)
            /\ tasks[k].res.kind \in {"pending", "float"}

\* a parallel call between the creation of its pool and its return
InParallel == pc \in {"mc_submit", "bs_submit", "mc_par", "bs_par"}

\* C11: whatever the order in which the workers finish, the k-th statistic
\* collected is the result of the k-th submitted task, the one given the
\* k-th sub-seed.
C11_CollectedInSubmissionOrder ==
    InParallel =>
        \A k \in 1 .. Len(t_b) :
            /\ tasks[k].res.kind = "float"
            /\ t_b[k] = tasks[k].res.v
            /\ tasks[k].args[Len(tasks[k].args)] = SubSeeds(RandomSeed, call.B)[k]

\* the first result has been collected while the third task had finished
\* before the second, with a different statistic
C11_Witness ==
    /\ pc = "mc_par"
    /\ call.B = 3
    /\ Len(t_b) = 1
    /\ tasks[2].res = Pending
    /\ tasks[3].res.kind = "float"
    /\ tasks[3].res.v # t_b[1]

\* C12: once a task of a parallel call has raised, the call can end only by
\* raising a task's exception to the caller (so with no p-value or
\* interval), and until then no finished task is run again.
C12_WorkerExceptionPropagates ==
    [][(InParallel /\ \E k \in 1 .. Len(tasks) : IsRaise(tasks[k].res)) =>
         /\ pc' = "idle" =>
              (IsRaise(ret') /\ \E k \in 1 .. Len(tasks) : ret' = tasks[k].res)
         /\ pc' # "idle" =>
              \A k \in 1 .. Len(tasks) :
                  tasks[k].res # Pending => tasks'[k] = tasks[k]]_vars

\* a parallel bootstrap_ci has ended with the exception of one of its tasks
C12_Witness ==
    /\ call.op = "bootstrap_ci"
    /\ call.par
    /\ pc = "idle"
    /\ IsRaise(ret)
    /\ pool.status = "open"

\* C13: on an object on which compute_dif returns a pair, a call of
\* bootstrap_ci takes for t_obs the first component of that pair, in split
\* and in no-split mode alike (unless no worker pool can be made).
C13_BootstrapObservedIsDif ==
    [][(pc = "idle" /\ call'.op = "bootstrap_ci" /\ ComputeDif(Self).kind = "tuple") =>
         \/ /\ pc' \in {"bs_seq", "bs_submit"}
            /\ t_obs' = Float(ComputeDif(Self).v[1])
         \/ ret' = Raise("ValueError")]_vars

\* the step that ends bootstrap_ci after its B repetitions
BsEnds == pc \in {"bs_seq", "bs_par"} /\ Len(t_b) = call.B /\ pc' = "idle"

\* C14: for B >= 2 the SE interval that bootstrap_ci returns is
\* [t_obs - z * epb, t_obs + z * epb], epb being the standard deviation of
\* the B statistics with divisor B - 1 (sqrt(sum((t - mean)^2) / (B - 1)) in
\* floating point) and z the normal quantile at 1 - sig_b / 2: the bounds
\* are t_obs -/+ the same half width up to the rounding of the last
\* operations, and lower <= t_obs <= upper.
C14_SeInterval ==
    [][(BsEnds /\ call.B >= 2) =>
         /\ ret'.kind = "dict"
         /\ LET lo   == ret'.se_int[1]
                hi   == ret'.se_int[2]
                t    == t_obs.v
                half == FMul(NormPpf(call.sig_b),
                             FSqrt(FDiv(SumSqDev(t_b), call.B - 1)))
                tol  == 2 * Ulp(half) + Ulp(hi)
            IN  /\ ret'.t_obs = t_obs
                /\ lo <= t /\ t <= hi
                /\ (hi - t) - half \in (0 - tol) .. tol
                /\ (t - lo) - half \in (0 - tol) .. tol
                /\ (hi - t) - (t - lo) \in (0 - Ulp(hi)) .. Ulp(hi)]_vars

\* bootstrap_ci has returned an SE interval with t_obs strictly inside and
\* a negative lower bound
C14_Witness ==
    /\ call.op = "bootstrap_ci"
    /\ pc = "idle"
    /\ ret.kind = "dict"
    /\ ret.se_int[1] < 0
    /\ ret.t_obs.v < ret.se_int[2]

\* C15: for every B >= 1 bootstrap_ci returns a percentile interval whose
\* bounds are the sig_b / 2 and 1 - sig_b / 2 quantiles of the B statistics,
\* lie within [min(t_vec), max(t_vec)] and satisfy lower <= upper.
C15_PercentileInterval ==
    [][BsEnds =>
         /\ ret'.kind = "dict"
         /\ LET lo == ret'.percent_int[1]
                hi == ret'.percent_int[2]
            IN  /\ lo = Quantile(t_b, call.sig_b[1], 2 * call.sig_b[2])
                /\ hi = Quantile(t_b, 2 * call.sig_b[2] - call.sig_b[1],
                                 2 * call.sig_b[2])
                /\ \E k \in 1 .. Len(t_b) : t_b[k] <= lo
                /\ \E k \in 1 .. Len(t_b) : hi <= t_b[k]
                /\ lo <= hi]_vars

\* a repetition loop of monte_carlo_test or bootstrap_ci is in progress
Refitting == pc \in {"mc_seq", "bs_seq"} \/ InParallel

\* C16: every refit of monte_carlo_test and bootstrap_ci is evaluated on the
\* fold compute_dif evaluates on: while a repetition loop is in progress the
\* fold the refits read (self.X_test) exists and is the held-out fold in
\* split mode and the training fold in no-split mode.
C16_RefitsOnDifFold ==
    Refitting => ("X_test" \in attrs /\ X_test = DifRows)

\* C17: when the estimator was fitted on a single-class vector, predict
\* reports P(w = 1 | x) for each row (0 after all zeros, 1 after all ones)
\* and raises nothing; with both classes it reports column 1 of the table.
C17_SingleClassPositiveProbability ==
    (call.op = "predict" /\ Fitted /\ IsSklearn(model) /\ model.classes # {}) =>
        /\ ret.kind = "ndarray"
        /\ \A i \in 1 .. Len(call.X) :
             Flat(ret)[i] = IF model.classes = {0} THEN 0
                            ELSE IF model.classes = {1} THEN One
                            ELSE model.p[call.X[i]]

\* C18: fit obtains the intervals through exactly one calling convention,
\* fixed by the flags alone whatever the predictor is: predict(X,
\* significance=alpha) when nc is set (also when islcp is set too), else
\* predict_pi stacked into two columns when islcp is set, else plain predict;
\* a predictor that answers the chosen convention yields one (lower, upper)
\* row per row of X.
C18_AdapterChosenByFlags ==
    pc = "adapted" =>
        /\ ret.invoked = << IF nc THEN "predict_significance"
                            ELSE IF islcp THEN "predict_pi"
                            ELSE "predict" >>
        /\ (IF nc THEN conf.significance
            ELSE IF islcp THEN conf.predict_pi ELSE conf.predict) =>
              /\ ret.preds.kind = "ndarray"
              /\ ret.preds.v = ConfPredict(call.X)

\* both flags set on a predictor that answers every convention: only the
\* significance convention was invoked
C18_Witness ==
    /\ pc = "adapted"
    /\ nc /\ islcp
    /\ conf.significance /\ conf.predict_pi /\ conf.predict
    /\ ret.invoked = <<"predict_significance">>
    /\ Len(ret.preds.v) = MaxN

\* C19: in parallel mode the B sub-seeds are all drawn from the generator
\* seeded with the master seed before the first task is submitted, exactly B
\* of them, they are a function of the master seed and B alone (whatever
\* the workers have done so far), and task k was given the k-th sub-seed.
C19_SubSeedsDrawnBeforeDispatch ==
    InParallel =>
        /\ Len(seeds) = call.B
        /\ seeds = SubSeeds(RandomSeed, call.B)
        /\ Len(tasks) <= call.B
        /\ \A k \in 1 .. Len(tasks) :
             tasks[k].args[Len(tasks[k].args)] = seeds[k]

\* two of three tasks submitted, the second already run and the first not:
\* all three sub-seeds exist
C19_Witness ==
    /\ pc = "mc_submit"
    /\ call.B = 3
    /\ Len(tasks) = 2
    /\ tasks[1].res = Pending
    /\ tasks[2].res # Pending
    /\ Len(seeds) = 3

\* C20: every parallel call starts with a pool of its own, open and without
\* tasks; only an open pool is given tasks; a call that returns normally has
\* collected all B results from the open pool and closed and joined it in
\* the step that returns, so that after a normal return the pool is joined
\* and a joined pool is never given a task again.
C20_PoolPerCall ==
    [][/\ (pc = "idle" /\ pc' \in {"mc_submit", "bs_submit"}) =>
            /\ pool'.status = "open"
            /\ pool'.unfinished = 0
            /\ tasks' = <<>>
       /\ Len(tasks') > Len(tasks) =>
            /\ pool.status = "open"
            /\ pool'.status = "open"
       /\ (InParallel /\ pc' = "idle" /\ ~IsRaise(ret')) =>
            /\ Len(t_b) = call.B
            /\ \A k \in 1 .. call.B : tasks[k].res.kind = "float"
            /\ pool.status = "open"
            /\ pool'.status = "joined"
            /\ pool'.unfinished = 0
       /\ pool.status = "joined" =>
            /\ tasks = <<>>
            /\ tasks' = <<>>
            /\ pool' = pool \/ pool'.unfinished = 0]_vars

\* a parallel monte_carlo_test has returned its result and its pool is joined
C20_Witness ==
    /\ call.op = "monte_carlo_test"
    /\ call.par
    /\ pc = "idle"
    /\ ret.kind = "dict"
    /\ pool.status = "joined"

\* C21: a parallel call returns a result only after all B submitted
\* repetitions have completed, and once every task has finished without
\* error and its result has been collected the call returns its result
\* computed from the B statistics: it does not end while a task it still
\* waits for is unfinished, and the step that ends it after B collected
\* statistics returns the result rather than raising.
C21_ReturnsAfterAllTasks ==
    [][(InParallel /\ pc' = "idle") =>
         /\ ~IsRaise(ret') =>
              /\ Len(t_b) = call.B
              /\ \A k \in 1 .. call.B : tasks[k].res.kind = "float"
         /\ (Len(t_b) = call.B /\ Len(tasks) = call.B
               /\ \A k \in 1 .. call.B : tasks[k].res.kind = "float") =>
              ret'.kind = "dict"]_vars

\* C22: the resample of a bootstrap repetition has exactly B row indices
\* (B the number of repetitions, whatever the size of the training fold),
\* each one a row of the training fold, repeats allowed, and row i of the
\* resampled features and entry i of the resampled labels are both taken at
\* index i of the draw.
C22_ResampleOfSizeB ==
    pc = "resampled" =>
        /\ Len(ret.new_indexes) = call.B
        /\ Len(ret.new.X) = call.B
        /\ Len(ret.new.w) = call.B
        /\ \A i \in 1 .. call.B :
             /\ ret.new_indexes[i] \in 1 .. Len(X_train)
             /\ ret.new.X[i] = X_train[ret.new_indexes[i]]
             /\ ret.new.w[i] = w_train[ret.new_indexes[i]]

\* a resample of MaxB rows from a smaller fold, one row drawn twice and
\* carrying its own label each time
C22_Witness ==
    /\ pc = "resampled"
    /\ call.B = MaxB
    /\ Len(X_train) = 2
    /\ w_train[1] # w_train[2]
    /\ ret.new_indexes[1] = 2
    /\ ret.new_indexes[2] = 2
    /\ ret.new.w[1] = w_train[2]
    /\ ret.new.w[MaxB] = w_train[1]

\* C23: for every family, every refit of monte_carlo_test and bootstrap_ci
\* on a fitted object with a held-out fold completes with a statistic: a
\* pass of a sequential loop appends one statistic and stays in the loop,
\* and a worker that finishes a task leaves a statistic in it.
C23_RefitsComplete ==
    [][/\ (pc \in {"mc_seq", "bs_seq"} /\ Len(t_b) < call.B
             /\ Fitted /\ "X_test" \in attrs) =>
            /\ pc' = pc
            /\ Len(t_b') = Len(t_b) + 1
       /\ (InParallel /\ Fitted /\ Len(tasks') = Len(tasks)) =>
            \A k \in 1 .. Len(tasks) :
               tasks'[k].res # tasks[k].res => tasks'[k].res.kind = "float"]_vars

\* the number of validation rows candidate i of the path predicts wrongly
Misses(i) ==
    Cardinality({r \in 1 .. Len(call.w_valid) :
                   call.path[i].preds[r] # call.w_valid[r]})

\* C24: prune_tree goes through the candidates in the order of the path and
\* returns the strength of the first candidate whose held-out Brier loss is
\* the least of all candidates (every earlier candidate has a strictly
\* larger loss), and it leaves the object's own model as it was.
C24_PruneTreeFirstMinimum ==
    (pc = "pruned" /\ Len(call.path) > 0) =>
        /\ ret.kind = "float"
        /\ \E i \in 1 .. Len(call.path) :
             /\ ret.v = call.path[i].ccp_alpha
             /\ \A j \in 1 .. Len(call.path) : Misses(i) <= Misses(j)
             /\ \A j \in 1 .. i - 1 : Misses(j) > Misses(i)
        /\ model = DecisionTreeClassifier

\* two candidates of equal loss, neither perfect: the first was returned
C24_Witness ==
    /\ pc = "pruned"
    /\ Len(call.path) = 2
    /\ Misses(1) = 1
    /\ Misses(2) = 1
    /\ call.path[1].preds # call.path[2].preds
    /\ ret.kind = "float"
    /\ ret.v = call.path[1].ccp_alpha

C26_FitMutatesNoInstance ==
    [][(pc = "idle" /\ call'.op = "fit" /\ ret'.kind = "self") =>
         coverage_evaluator'.est = coverage_evaluator.est]_vars

\* C27: whatever the number of cores (one included), a parallel
\* monte_carlo_test whose observed statistic was computed gets a pool, open
\* and with at least one worker, and goes on to submit its B repetitions.
C27_PoolForEveryCoreCount ==
    [][(pc = "idle" /\ call'.op = "monte_carlo_test" /\ call'.par
          /\ ComputeDif(Self).kind = "tuple") =>
         /\ pc' = "mc_submit"
         /\ pool'.status = "open"
         /\ pool'.size >= 1]_vars

\* the fields of the analysis object monte_carlo_test and bootstrap_ci read
Analysis ==
    <<alpha, coverage_evaluator, model, attrs, X_train, w_train, X_test, w_test>>

C29_HeldOutFoldOfLatestFit ==
    [][(pc = "idle" /\ call.op = "fit" /\ ret.kind = "self"
          /\ call'.op \in {"monte_carlo_test", "bootstrap_ci"}
          /\ pc' # "idle"
          /\ "X_test" \in attrs) =>
         /\ split_train
         /\ Len(X_train) + Len(X_test) = call.n_X]_vars

\* C30: however a parallel monte_carlo_test or bootstrap_ci on an object
\* with a held-out fold ends, by returning or by the exception of a worker
\* reaching the caller, its pool is not open any more when control is back
\* with the caller and none of its tasks is still unfinished.
C30_PoolClosedOnEveryExit ==
    (pc = "idle" /\ call.op \in {"monte_carlo_test", "bootstrap_ci"}
       /\ call.par /\ "X_test" \in attrs) =>
        /\ pool.status # "open"
        /\ pool.unfinished = 0
=============================================================================
